---- MODULE Spec2Model ----
(***************************************************************************)
(* A model of mathics/eval/image.py: the padded FFT convolution            *)
(* (convolve), the Exif translation (extract_exif) and the three pixel     *)
(* rescale functions (pixels_as_float, pixels_as_ubyte, pixels_as_uint).   *)
(*                                                                         *)
(* The functions are pure; each gets a specification whose Init draws the  *)
(* arguments from bounded sets and whose action applies the function:      *)
(*   SpecConvolve, SpecExif, SpecPixels.                                   *)
(* The variables of the functions a specification does not exercise stay   *)
(* at their idle values.                                                   *)
(***************************************************************************)
EXTENDS Integers, Sequences, FiniteSets, TLC

VARIABLES
    \* ---- convolve ----
    cv_pc,      \* "idle" | "start" | "done"
    signal,     \* the in1 argument, a 2D array
    kernel,     \* the in2 argument, a 2D array
    fixed,      \* the fixed argument
    in1,        \* in1 after line 49 (padded when fixed)
    ret,        \* the full linear convolution, line 57
    cv_result,  \* the returned array, line 60
    \* ---- extract_exif ----
    ex_pc,      \* "idle" | "start" | "done"
    ExifTags,   \* the module-level tag dictionary, lines 20-23
    image,      \* the image argument
    ex_result,  \* what the call produced
    evalCalls,  \* number of calls made on the evaluation argument
    \* ---- pixels_as_* ----
    px_pc,      \* "idle" | "ready" | "raised"
    promotion,  \* how the installed numpy promotes  array * python-int
    orig,       \* the buffer the run started from
    pixels,     \* the current buffer
    calls,      \* the rescale functions applied so far
    px_error    \* the exception raised, or "none"

vars == << cv_pc, signal, kernel, fixed, in1, ret, cv_result,
           ex_pc, ExifTags, image, ex_result, evalCalls,
           px_pc, promotion, orig, pixels, calls, px_error >>

cvVars == << cv_pc, signal, kernel, fixed, in1, ret, cv_result >>
exVars == << ex_pc, ExifTags, image, ex_result, evalCalls >>
pxVars == << px_pc, promotion, orig, pixels, calls, px_error >>

Max(a, b) == IF a >= b THEN a ELSE b
Min(a, b) == IF a <= b THEN a ELSE b

RECURSIVE Pow2(_)
Pow2(n) == IF n <= 0 THEN 1 ELSE 2 * Pow2(n - 1)

(***************************************************************************)
(*                              convolve                                   *)
(***************************************************************************)

\* Bounds of the convolve inputs.
MaxSignalDim == 3
MaxKernelDim == 3
MaxSignalVal == 1
MaxKernelVal == 2

\* A 2D numpy array: its shape and its elements, indexed from 0.
Indices(n0, n1) == (0 .. n0 - 1) \X (0 .. n1 - 1)

EmptyArray == [shape |-> << 0, 0 >>, data |-> [ix \in Indices(0, 0) |-> 0]]

\* The signals: every 2D array of the bounded shapes and values.
Signals ==
    UNION { { [shape |-> sh, data |-> d] :
                d \in [ Indices(sh[1], sh[2]) -> 0 .. MaxSignalVal ] } :
            sh \in (1 .. MaxSignalDim) \X (1 .. MaxSignalDim) }

\* The kernels: uniform (box) kernels of every bounded shape and weight;
\* the 1x1 kernel of weight 1 is the identity kernel.
Kernels ==
    { [shape |-> << c[1], c[2] >>,
       data  |-> [ix \in Indices(c[1], c[2]) |-> c[3]]] :
        c \in (1 .. MaxKernelDim) \X (1 .. MaxKernelDim) \X (1 .. MaxKernelVal) }

\* line 47: padding = numpy.array(in2.shape) // 2
padding(a2) == << a2.shape[1] \div 2, a2.shape[2] \div 2 >>

\* numpy.pad's reading of a 1-D pad_width of two numbers: it is ONE
\* (before, after) pair, used for every axis.
AsPairs(pw) == [d \in 1 .. 2 |-> << pw[1], pw[2] >>]

\* line 49: numpy.pad(in1, padding, "edge")
NumpyPadEdge(a, pw) ==
    LET pairs == AsPairs(pw)
        n0 == a.shape[1] + pairs[1][1] + pairs[1][2]
        n1 == a.shape[2] + pairs[2][1] + pairs[2][2]
        clamp(i, n) == Max(0, Min(n - 1, i))
    IN  [shape |-> << n0, n1 >>,
         data  |-> [ix \in Indices(n0, n1) |->
                      a.data[<< clamp(ix[1] - pairs[1][1], a.shape[1]),
                                clamp(ix[2] - pairs[2][1], a.shape[2]) >>]]]

\* line 53: shape = s1 + s2 - 1
shape(s1, s2) == << s1[1] + s2[1] - 1, s1[2] + s2[2] - 1 >>

RECURSIVE SumTo(_, _)
SumTo(f, n) == IF n < 0 THEN 0 ELSE f[n] + SumTo(f, n - 1)

\* lines 55-57: irfftn(rfftn(in1, shape) * rfftn(in2, shape), shape) is the
\* linear convolution of the two arrays on `shape` (the convolution theorem;
\* the elements are integers here, floating-point rounding is left out).
FFTConvolve(a, b, sh) ==
    LET bAt(i, j) == IF /\ i >= 0 /\ i < b.shape[1]
                        /\ j >= 0 /\ j < b.shape[2]
                     THEN b.data[<< i, j >>] ELSE 0
    IN  [shape |-> sh,
         data  |-> [ix \in Indices(sh[1], sh[2]) |->
                      SumTo([i \in 0 .. a.shape[1] - 1 |->
                               SumTo([j \in 0 .. a.shape[2] - 1 |->
                                        a.data[<< i, j >>]
                                          * bAt(ix[1] - i, ix[2] - j)],
                                     a.shape[2] - 1)],
                            a.shape[1] - 1)]]

\* line 59: excess = (numpy.array(ret.shape) - s1) // 2 + padding
excess(retShape, s1, pad) ==
    << (retShape[1] - s1[1]) \div 2 + pad[1],
       (retShape[2] - s1[2]) \div 2 + pad[2] >>

\* Python's slice(p, -p) on a dimension of length n, for p >= 0: the start
\* and stop indices after clipping.  -0 is 0, so slice(0, -0) is empty.
SliceStart(p, n) == Min(p, n)
SliceStop(p, n)  == IF p = 0 THEN 0 ELSE Max(n - p, 0)

\* line 60: ret[tuple(slice(p, -p) for p in excess)]
Crop(a, ex) ==
    LET b0 == SliceStart(ex[1], a.shape[1])
        e0 == SliceStop(ex[1], a.shape[1])
        b1 == SliceStart(ex[2], a.shape[2])
        e1 == SliceStop(ex[2], a.shape[2])
    IN  [shape |-> << Max(e0 - b0, 0), Max(e1 - b1, 0) >>,
         data  |-> [ix \in Indices(Max(e0 - b0, 0), Max(e1 - b1, 0)) |->
                      a.data[<< b0 + ix[1], b1 + ix[2] >>]]]

\* lines 37-60
convolve ==
    /\ cv_pc = "start"
    /\ LET pad  == padding(kernel)
           p1   == IF fixed THEN NumpyPadEdge(signal, pad) ELSE signal
           full == FFTConvolve(p1, kernel, shape(p1.shape, kernel.shape))
       IN  /\ in1' = p1
           /\ ret' = full
           /\ cv_result' = Crop(full, excess(full.shape, p1.shape, pad))
    /\ cv_pc' = "done"
    /\ UNCHANGED << signal, kernel, fixed >>
    /\ UNCHANGED exVars
    /\ UNCHANGED pxVars

(***************************************************************************)
(*                            extract_exif                                 *)
(***************************************************************************)

\* Python's None, where a name or a mapping is expected.
None == "None"

\* lines 29-34: names overriding the ones given by Pillow
Exif_names ==
    (37385 :> "FlashInfo") @@ (40960 :> "FlashpixVersion")
      @@ (40962 :> "PixelXDimension") @@ (40963 :> "PixelYDimension")

\* line 21: PIL.ExifTags.TAGS, restricted to the tags the model uses.
PIL_TAGS ==
    (271 :> "Make") @@ (37385 :> "Flash") @@ (37386 :> "FocalLength")
      @@ (40962 :> "ExifImageWidth")

\* line 23: ExifTags = {} when Pillow cannot be imported
NO_TAGS == [k \in {} |-> None]

\* The tag ids the images of the model carry: 59999 is a tag neither table
\* names.
TagIds == {271, 37385, 37386, 40962, 59999}

\* The raw values Pillow hands out (and two it does not): a value is its
\* Python type with its content.
RawValues ==
    { [kind |-> "tuple", nums |-> << 1, 2 >>,    text |-> ""],
      [kind |-> "tuple", nums |-> << 1, 2, 3 >>, text |-> ""],
      [kind |-> "bytes", nums |-> << 48, 50 >>,  text |-> ""],
      [kind |-> "int",   nums |-> << 3 >>,       text |-> ""],
      [kind |-> "str",   nums |-> << >>,         text |-> "abc"],
      [kind |-> "float", nums |-> << 5 >>,       text |-> ""] }

\* The mappings getexif can return over TagIds.
ExifMappings == UNION { [S -> RawValues] : S \in SUBSET TagIds }

\* Exceptions derived from Exception, and those derived from BaseException
\* alone.
ExceptionClasses == {"OSError", "ValueError"}
BaseOnlyClasses  == {"KeyboardInterrupt", "SystemExit"}

\* The images: without a getexif attribute, with one that raises, with one
\* that returns None, with one that returns a mapping.
Images ==
    { [getexif |-> "absent", exc |-> "none", exif |-> NO_TAGS] }
    \cup { [getexif |-> "raises", exc |-> e, exif |-> NO_TAGS] :
             e \in ExceptionClasses \cup BaseOnlyClasses }
    \cup { [getexif |-> "returns None", exc |-> "none", exif |-> NO_TAGS] }
    \cup { [getexif |-> "returns", exc |-> "none", exif |-> m] :
             m \in ExifMappings }

\* line 69: hasattr(image, "getexif")
HasGetexif(img) == img.getexif # "absent"

\* a narrower handler: except OSError
Caught_OSErrorOnly(e) == e = "OSError"

\* line 77: except Exception
Caught(e) == e \in ExceptionClasses

\* line 81: not exif
IsFalsy(img) == img.getexif = "returns None" \/ DOMAIN img.exif = {}

\* dict.get(k) and dict.get(k, default)
DictGet(d, k, default) == IF k \in DOMAIN d THEN d[k] ELSE default

\* the override table consulted before the standard dictionary
ResolveName_OverrideFirst(k) ==
    DictGet(Exif_names, k, DictGet(ExifTags, k, None))

\* line 87: name = ExifTags.get(k)
ResolveName(k) == DictGet(ExifTags, k, None)

\* line 88: not name
NoName(name) == name = None \/ name = ""

\* line 109: Exif_names.get(k, name)
DisplayName(k, name) == DictGet(Exif_names, k, name)

RECURSIVE JoinStr(_)
\* line 102: " ".join([str(x) for x in v])
JoinStr(v) ==
    IF v = << >> THEN ""
    ELSE IF Len(v) = 1 THEN ToString(v[1])
    ELSE ToString(v[1]) \o " " \o JoinStr(Tail(v))

\* lines 95-106: which raw values are converted (the others are skipped)
Supported(v) ==
    \/ v.kind = "tuple" /\ Len(v.nums) = 2
    \/ v.kind = "bytes"
    \/ v.kind \in {"int", "str"}

\* lines 95-104: the symbolic value of a supported raw value.  Rational,
\* round, Simplify and from_python belong to the host: the result names the
\* constructor and keeps the arguments.
Convert(name, v) ==
    IF v.kind = "tuple" /\ Len(v.nums) = 2
    THEN IF name = "FocalLength"
         THEN [head |-> "Round2(Rational)", nums |-> v.nums, text |-> ""]
         ELSE [head |-> "Simplify(Rational)", nums |-> v.nums, text |-> ""]
    ELSE IF v.kind = "bytes"
    THEN [head |-> "String", nums |-> << >>, text |-> JoinStr(v.nums)]
    ELSE IF v.kind = "int"
    THEN [head |-> "Integer", nums |-> v.nums, text |-> ""]
    ELSE [head |-> "String", nums |-> << >>, text |-> v.text]

\* line 100: the entries whose value is evaluated by the host evaluator
NeedsEvaluate(name, v) ==
    v.kind = "tuple" /\ Len(v.nums) = 2 /\ name # "FocalLength"

SetMin(S) == CHOOSE x \in S : \A y \in S : x <= y

RECURSIVE SortedKeys(_)
\* line 86: sorted(exif.items(), key=itemgetter(0))
SortedKeys(S) ==
    IF S = {} THEN << >>
    ELSE << SetMin(S) >> \o SortedKeys(S \ {SetMin(S)})

RECURSIVE exif_options(_, _)
\* lines 84-110: the loop over the sorted items
exif_options(exif, keys) ==
    IF keys = << >> THEN << >>
    ELSE LET k    == Head(keys)
             v    == exif[k]
             name == ResolveName(k)
             rest == exif_options(exif, Tail(keys))
         IN  IF NoName(name) \/ ~Supported(v) THEN rest
             ELSE << [name  |-> DisplayName(k, name),
                      value |-> Convert(name, v)] >> \o rest

RECURSIVE EvaluateCalls(_, _)
\* line 100: how often the loop calls .evaluate(evaluation)
EvaluateCalls(exif, keys) ==
    IF keys = << >> THEN 0
    ELSE LET k    == Head(keys)
             name == ResolveName(k)
         IN  (IF ~NoName(name) /\ NeedsEvaluate(name, exif[k]) THEN 1 ELSE 0)
               + EvaluateCalls(exif, Tail(keys))

\* The idle values of the extract_exif variables.
NoImage == [getexif |-> "absent", exc |-> "none", exif |-> NO_TAGS]
NoResult == [kind |-> "none", exc |-> "none", entries |-> << >>]

\* "return None", also the implicit one at the end of the function
ReturnNone == [kind |-> "None", exc |-> "none", entries |-> << >>]

\* an exception leaving the function
Propagate(e) == [kind |-> "raised", exc |-> e, entries |-> << >>]

\* an empty option list turned into "no metadata"
WrapRawExif_NoneWhenEmpty(options) ==
    IF options = << >> THEN ReturnNone
    ELSE [kind |-> "RawExif", exc |-> "none", entries |-> options]

\* line 112: Expression(SymbolRule, String("RawExif"), ListExpression(...))
WrapRawExif(options) ==
    [kind |-> "RawExif", exc |-> "none", entries |-> options]

\* lines 63-112
extract_exif ==
    /\ ex_pc = "start"
    /\ IF ~HasGetexif(image)
       THEN ex_result' = ReturnNone /\ evalCalls' = 0
       ELSE IF image.getexif = "raises"
       THEN /\ ex_result' = IF Caught(image.exc) THEN ReturnNone
                            ELSE Propagate(image.exc)
            /\ evalCalls' = 0
       ELSE IF IsFalsy(image)
       THEN ex_result' = ReturnNone /\ evalCalls' = 0
       ELSE LET keys == SortedKeys(DOMAIN image.exif)
            IN  /\ ex_result' = WrapRawExif(exif_options(image.exif, keys))
                /\ evalCalls' = EvaluateCalls(image.exif, keys)
    /\ ex_pc' = "done"
    /\ UNCHANGED << ExifTags, image >>
    /\ UNCHANGED cvVars
    /\ UNCHANGED pxVars


(***************************************************************************)
(*                 pixels_as_float / _ubyte / _uint                        *)
(***************************************************************************)

\* Bounds of the pixel runs: the length of a sampled buffer and the number
\* of rescale calls chained on it.
MaxBufLen == 2
MaxCalls == 2

\* An element of a buffer is the number m * 2^e.  Integer and boolean
\* elements have e = 0 (False is 0, True is 1); a float is kept with m odd
\* (or as 0 * 2^0), so that equal floats are equal records.
Num(m, e) == [m |-> m, e |-> e]
FromInt(n) == Num(n, 0)

RECURSIVE Norm(_, _)
Norm(m, e) ==
    IF m = 0 THEN Num(0, 0)
    ELSE IF m % 2 = 0 THEN Norm(m \div 2, e + 1)
    ELSE Num(m, e)

Zero == Num(0, 0)
One == Num(1, 0)

\* x <= 1.0 and x >= 0.0
LeOne(x) ==
    \/ x.m <= 0
    \/ x.e >= 0 /\ x.m = 1 /\ x.e = 0
    \/ x.e < 0 /\ (-x.e >= 31 \/ x.m <= Pow2(-x.e))
GeZero(x) == x.m >= 0

\* The significand widths of float32 and float64.
Precision(dtype) == IF dtype = "float32" THEN 24 ELSE 53

RECURSIVE BitLen(_)
BitLen(n) == IF n = 0 THEN 0 ELSE 1 + BitLen(n \div 2)

\* Round to nearest, ties to even: `kept` followed by a remainder `rem` out
\* of `full` (rem < full).
RoundHalfEven(kept, rem, full) ==
    IF 2 * rem > full \/ (2 * rem = full /\ kept % 2 = 1)
    THEN kept + 1 ELSE kept

RECURSIVE DivBits(_, _, _, _, _)
\* The quotient n / c as a float of p significant bits, by long division:
\* q is the quotient with k fractional bits, r the remainder.
DivBits(q, r, c, k, p) ==
    IF r = 0 THEN Norm(q, -k)
    ELSE IF q >= Pow2(p - 1) THEN Norm(RoundHalfEven(q, r, c), -k)
    ELSE IF 2 * r >= c THEN DivBits(2 * q + 1, 2 * r - c, c, k + 1, p)
    ELSE DivBits(2 * q, 2 * r, c, k + 1, p)

\* float(n) / c in float32, for integers n >= 0: correctly rounded.
DivFloat32(n, c) == DivBits(n \div c, n % c, c, 0, 24)

\* x * c in a float of p significant bits, for a float x >= 0 and an
\* integer c < 2^16: the exact product is kept in two limbs of 12 bits,
\* hi * 4096 + lo, and rounded to p bits.
MulFloat(x, c, p) ==
    LET mh  == x.m \div 4096
        ml  == x.m % 4096
        hi  == mh * c + (ml * c) \div 4096
        lo  == (ml * c) % 4096
        len == IF hi = 0 THEN BitLen(lo) ELSE BitLen(hi) + 12
        s   == len - p
    IN  IF s <= 0 THEN Norm(hi * 4096 + lo, x.e)
        ELSE IF s <= 12
        THEN Norm(RoundHalfEven(hi * Pow2(12 - s) + lo \div Pow2(s),
                                lo % Pow2(s), Pow2(s)),
                  x.e + s)
        ELSE Norm(RoundHalfEven(hi \div Pow2(s - 12),
                                (hi % Pow2(s - 12)) * 4096 + lo, Pow2(s)),
                  x.e + s)

\* The integer part of a float x >= 0 (astype to an unsigned type truncates).
Trunc(x) ==
    IF x.e >= 0 THEN x.m * Pow2(x.e)
    ELSE IF -x.e >= 31 THEN 0
    ELSE x.m \div Pow2(-x.e)

\* lines 153, 168: numpy.maximum(numpy.minimum(pixels, 1.0), 0.0)
Clamp01(x) == IF ~LeOne(x) THEN One ELSE IF ~GeZero(x) THEN Zero ELSE x

\* the byte divided by 256.0
U8ToFloat_By256(x) == DivFloat32(x.m, 256)

\* line 141: pixels.astype(numpy.float32) / 255.0
U8ToFloat(x) == DivFloat32(x.m, 255)

\* the 16-bit value divided by the 8-bit scale
U16ToFloat_By255(x) == DivFloat32(x.m, 255)

\* line 143: pixels.astype(numpy.float32) / 65535.0
U16ToFloat(x) == DivFloat32(x.m, 65535)

\* line 145: pixels.astype(numpy.float32)
BoolToFloat(x) == Norm(x.m, 0)

\* lines 153-154: clamp, * 255.0, astype(numpy.uint8)
FloatToU8(x, dtype) ==
    FromInt(Trunc(MulFloat(Clamp01(x), 255, Precision(dtype))) % 256)

\* line 158: (pixels / 256).astype(numpy.uint8)
U16ToU8(x) == FromInt(Trunc(Norm(x.m, -8)) % 256)

\* line 160: pixels.astype(numpy.uint8) * 255
BoolToU8(x) == FromInt((x.m * 255) % 256)

\* lines 168-169: clamp, * 65535.0, astype(numpy.uint16)
FloatToU16(x, dtype) ==
    FromInt(Trunc(MulFloat(Clamp01(x), 65535, Precision(dtype))) % 65536)

\* line 171: pixels.astype(numpy.uint16) * 256
U8ToU16(x) == FromInt((x.m * 256) % 65536)

\* line 175: pixels.astype(numpy.uint8) * 65535, where numpy's legacy
\* value-based promotion makes the product uint16
BoolToU16(x) == FromInt((x.m * 65535) % 65536)

\* line 175: what  uint8-array * 65535  does depends on the installed numpy:
\* "legacy" (value-based casting, NumPy 1.x) widens the result to uint16,
\* "nep50" (NumPy 2) refuses the Python integer 65535 for uint8 with an
\* OverflowError.
Promotions == {"legacy", "nep50"}

FloatTypes == {"float32", "float64"}
SupportedTypes == FloatTypes \cup {"uint8", "uint16", "bool"}
OtherTypes == {"int32", "uint32"}

Returned(dtype, data) == [raised |-> "none", dtype |-> dtype, data |-> data]
Raised(e, px) == [raised |-> e, dtype |-> px.dtype, data |-> px.data]

\* lines 136-147
pixels_as_float(px) ==
    IF px.dtype \in FloatTypes THEN Returned(px.dtype, px.data)
    ELSE IF px.dtype = "uint8"
    THEN Returned("float32", [i \in DOMAIN px.data |-> U8ToFloat(px.data[i])])
    ELSE IF px.dtype = "uint16"
    THEN Returned("float32", [i \in DOMAIN px.data |-> U16ToFloat(px.data[i])])
    ELSE IF px.dtype = "bool"
    THEN Returned("float32", [i \in DOMAIN px.data |-> BoolToFloat(px.data[i])])
    ELSE Raised("NotImplementedError", px)

\* lines 150-162
pixels_as_ubyte(px) ==
    IF px.dtype \in FloatTypes
    THEN Returned("uint8",
                  [i \in DOMAIN px.data |-> FloatToU8(px.data[i], px.dtype)])
    ELSE IF px.dtype = "uint8" THEN Returned(px.dtype, px.data)
    ELSE IF px.dtype = "uint16"
    THEN Returned("uint8", [i \in DOMAIN px.data |-> U16ToU8(px.data[i])])
    ELSE IF px.dtype = "bool"
    THEN Returned("uint8", [i \in DOMAIN px.data |-> BoolToU8(px.data[i])])
    ELSE Raised("NotImplementedError", px)

\* lines 165-177
pixels_as_uint(px, promo) ==
    IF px.dtype \in FloatTypes
    THEN Returned("uint16",
                  [i \in DOMAIN px.data |-> FloatToU16(px.data[i], px.dtype)])
    ELSE IF px.dtype = "uint8"
    THEN Returned("uint16", [i \in DOMAIN px.data |-> U8ToU16(px.data[i])])
    ELSE IF px.dtype = "uint16" THEN Returned(px.dtype, px.data)
    ELSE IF px.dtype = "bool"
    THEN IF promo = "legacy"
         THEN Returned("uint16",
                       [i \in DOMAIN px.data |-> BoolToU16(px.data[i])])
         ELSE Raised("OverflowError", px)
    ELSE Raised("NotImplementedError", px)

\* The sampled element values of each element type.
Samples(dtype) ==
    IF dtype \in FloatTypes
    THEN { Num(-1, 0), Zero, Num(1, -1), Num(3, -2), One, Num(1, 1) }
    ELSE IF dtype = "uint8" THEN { FromInt(n) : n \in {0, 1, 127, 128, 255} }
    ELSE IF dtype = "uint16"
    THEN { FromInt(n) : n \in {0, 1, 255, 256, 32768, 65535} }
    ELSE IF dtype = "bool" THEN { FromInt(0), FromInt(1) }
    ELSE { FromInt(n) : n \in {0, 1, 70000} }

\* The idle value of the pixel variables.
NoBuffer == [dtype |-> "bool", data |-> << >>]

\* The buffers: every buffer of at most MaxBufLen sampled elements, of
\* every element type, and every one-element uint8 buffer.
Buffers ==
    UNION { { [dtype |-> t, data |-> d] :
                d \in UNION { [1 .. n -> Samples(t)] : n \in 1 .. MaxBufLen } } :
            t \in SupportedTypes \cup OtherTypes }
    \cup { [dtype |-> "uint8", data |-> << FromInt(b) >>] : b \in 0 .. 255 }

\* One rescale call on the current buffer: the buffer becomes what the call
\* returned, or the run ends with the exception the call raised.
Apply(fn, out) ==
    /\ px_pc = "ready"
    /\ Len(calls) < MaxCalls
    /\ calls' = Append(calls, fn)
    /\ IF out.raised = "none"
       THEN /\ pixels' = [dtype |-> out.dtype, data |-> out.data]
            /\ px_error' = "none"
            /\ px_pc' = "ready"
       ELSE /\ pixels' = pixels
            /\ px_error' = out.raised
            /\ px_pc' = "raised"
    /\ UNCHANGED << promotion, orig >>
    /\ UNCHANGED cvVars
    /\ UNCHANGED exVars

CallPixelsAsFloat == Apply("float", pixels_as_float(pixels))
CallPixelsAsUbyte == Apply("ubyte", pixels_as_ubyte(pixels))
CallPixelsAsUint  == Apply("uint", pixels_as_uint(pixels, promotion))

(***************************************************************************)
(*                           specifications                                *)
(***************************************************************************)

\* convolve is called once, on any signal and kernel of the bounds.
InitConvolve ==
    /\ cv_pc = "start"
    /\ signal \in Signals
    /\ kernel \in Kernels
    /\ fixed \in BOOLEAN
    /\ in1 = EmptyArray
    /\ ret = EmptyArray
    /\ cv_result = EmptyArray
    /\ ex_pc = "idle"
    /\ ExifTags = NO_TAGS
    /\ image = NoImage
    /\ ex_result = NoResult
    /\ evalCalls = 0
    /\ px_pc = "idle"
    /\ promotion = "legacy"
    /\ orig = NoBuffer
    /\ pixels = NoBuffer
    /\ calls = << >>
    /\ px_error = "none"

SpecConvolve == InitConvolve /\ [][convolve]_vars

\* extract_exif is called once, on any image, with either tag dictionary.
InitExif ==
    /\ cv_pc = "idle"
    /\ signal = EmptyArray
    /\ kernel = EmptyArray
    /\ fixed = FALSE
    /\ in1 = EmptyArray
    /\ ret = EmptyArray
    /\ cv_result = EmptyArray
    /\ ex_pc = "start"
    /\ ExifTags \in {PIL_TAGS, NO_TAGS}
    /\ image \in Images
    /\ ex_result = NoResult
    /\ evalCalls = 0
    /\ px_pc = "idle"
    /\ promotion = "legacy"
    /\ orig = NoBuffer
    /\ pixels = NoBuffer
    /\ calls = << >>
    /\ px_error = "none"

SpecExif == InitExif /\ [][extract_exif]_vars

\* The rescale functions are applied, one after the other, to any buffer.
InitPixels ==
    /\ cv_pc = "idle"
    /\ signal = EmptyArray
    /\ kernel = EmptyArray
    /\ fixed = FALSE
    /\ in1 = EmptyArray
    /\ ret = EmptyArray
    /\ cv_result = EmptyArray
    /\ ex_pc = "idle"
    /\ ExifTags = NO_TAGS
    /\ image = NoImage
    /\ ex_result = NoResult
    /\ evalCalls = 0
    /\ px_pc = "ready"
    /\ promotion \in Promotions
    /\ orig \in Buffers
    /\ pixels = orig
    /\ calls = << >>
    /\ px_error = "none"

NextPixels == CallPixelsAsFloat \/ CallPixelsAsUbyte \/ CallPixelsAsUint

SpecPixels == InitPixels /\ [][NextPixels]_vars

Init == InitConvolve \/ InitExif \/ InitPixels

Next == convolve \/ extract_exif \/ NextPixels

Spec == Init /\ [][Next]_vars

(***************************************************************************)
(*                         claims on convolve                              *)
(***************************************************************************)

IsIdentityKernel(k) == k.shape = << 1, 1 >> /\ k.data[<< 0, 0 >>] = 1

\* C1: with the 1x1 kernel of value 1, convolve returns an array of the
\* signal's shape and elements, with and without padding.
C1_IdentityKernelReturnsSignal ==
    (cv_pc = "done" /\ IsIdentityKernel(kernel)) => cv_result = signal

\* C2: with padding, for every kernel no larger than the signal (odd or
\* even, square or not), the cropped result has the signal's shape.
C2_CroppedShapeIsSignalShape ==
    (/\ cv_pc = "done"
     /\ fixed
     /\ kernel.shape[1] <= signal.shape[1]
     /\ kernel.shape[2] <= signal.shape[2])
    => cv_result.shape = signal.shape

\* C10: with padding, dimension d of the signal is extended by floor(k_d/2)
\* edge-replicated samples before and after, for every kernel shape.
C10_PadsEachDimensionByItsOwnHalfKernel ==
    (cv_pc = "done" /\ fixed) =>
        LET p0 == kernel.shape[1] \div 2
            p1 == kernel.shape[2] \div 2
        IN  /\ in1.shape = << signal.shape[1] + 2 * p0,
                              signal.shape[2] + 2 * p1 >>
            /\ \A ix \in Indices(in1.shape[1], in1.shape[2]) :
                 in1.data[ix] =
                   signal.data[<< Max(0, Min(signal.shape[1] - 1, ix[1] - p0)),
                                  Max(0, Min(signal.shape[2] - 1, ix[2] - p1)) >>]

(***************************************************************************)
(*                       claims on extract_exif                            *)
(***************************************************************************)

Emitted(n) ==
    \E i \in DOMAIN ex_result.entries : ex_result.entries[i].name = n

\* The values the loop converts, as the claims list them: a 2-tuple, bytes,
\* an int or a str.
ConvertibleValue(v) ==
    v.kind \in {"bytes", "int", "str"} \/ (v.kind = "tuple" /\ Len(v.nums) = 2)

WrapperReturned ==
    ex_pc = "done" /\ image.getexif = "returns" /\ ex_result.kind = "RawExif"

\* C4 (as stated): the name is looked up in the override table first and in
\* the standard dictionary otherwise; an entry is skipped for lack of a name
\* only when neither table names its tag.
C4_OverrideTableLookedUpFirst ==
    WrapperReturned =>
        LET named == { k \in DOMAIN image.exif :
                         /\ ConvertibleValue(image.exif[k])
                         /\ k \in DOMAIN Exif_names \cup DOMAIN ExifTags }
        IN  /\ \A k \in named :
                 Emitted(IF k \in DOMAIN Exif_names THEN Exif_names[k]
                         ELSE ExifTags[k])
            /\ Len(ex_result.entries) = Cardinality(named)

\* C4 (amended): the name is looked up in the standard dictionary; an entry
\* the standard dictionary does not name is skipped, also when the override
\* table names it; an entry it names is emitted under the override name if
\* there is one, under the standard name otherwise.
C4_StandardNameRequiredOverrideRenames ==
    WrapperReturned =>
        LET named == { k \in DOMAIN image.exif :
                         /\ ConvertibleValue(image.exif[k])
                         /\ k \in DOMAIN ExifTags }
        IN  /\ \A k \in named :
                 Emitted(IF k \in DOMAIN Exif_names THEN Exif_names[k]
                         ELSE ExifTags[k])
            /\ \A k \in DOMAIN image.exif \ named :
                 k \in DOMAIN Exif_names => ~Emitted(Exif_names[k])
            /\ Len(ex_result.entries) = Cardinality(named)

\* C4 witness: a tag both tables name is emitted under the override name,
\* beside a tag only the standard dictionary names.
C4_Witness ==
    /\ WrapperReturned
    /\ ExifTags = PIL_TAGS
    /\ DOMAIN image.exif = {271, 37385}
    /\ \A k \in DOMAIN image.exif : ConvertibleValue(image.exif[k])
    /\ Emitted("FlashInfo") /\ Emitted("Make") /\ ~Emitted("Flash")

NoMetadataReturned ==
    /\ ex_result.kind = "None"
    /\ ex_result.entries = << >>
    /\ evalCalls = 0

\* C5 (as stated): no getexif accessor, getexif raising any exception, or
\* getexif returning None or an empty mapping: the result is None, nothing
\* propagates, no wrapper is built and the evaluator is not called.
C5_NoMetadataOnAnyException ==
    (/\ ex_pc = "done"
     /\ \/ image.getexif \in {"absent", "raises", "returns None"}
        \/ image.getexif = "returns" /\ DOMAIN image.exif = {})
    => NoMetadataReturned

\* C5 (amended): as stated, for the exceptions derived from Exception; an
\* exception derived from BaseException alone (KeyboardInterrupt,
\* SystemExit) leaves extract_exif.
C5_NoMetadataOnException ==
    /\ (/\ ex_pc = "done"
        /\ \/ image.getexif \in {"absent", "returns None"}
           \/ image.getexif = "raises" /\ image.exc \in ExceptionClasses
           \/ image.getexif = "returns" /\ DOMAIN image.exif = {})
       => NoMetadataReturned
    /\ (/\ ex_pc = "done"
        /\ image.getexif = "raises"
        /\ image.exc \in BaseOnlyClasses)
       => (ex_result.kind = "raised" /\ ex_result.exc = image.exc
           /\ evalCalls = 0)

\* C5 witness: getexif raised a ValueError and the call returned None.
C5_Witness ==
    /\ ex_pc = "done"
    /\ image.getexif = "raises"
    /\ image.exc = "ValueError"
    /\ NoMetadataReturned

\* C8: a non-empty mapping whose entries are all skipped gives a RawExif
\* wrapper with no entries, not None; None is returned only when the
\* mapping is empty or unavailable.
C8_AllSkippedGivesEmptyWrapper ==
    /\ (/\ ex_pc = "done"
        /\ image.getexif = "returns"
        /\ DOMAIN image.exif # {}
        /\ \A k \in DOMAIN image.exif :
             k \notin DOMAIN ExifTags \/ ~ConvertibleValue(image.exif[k]))
       => (ex_result.kind = "RawExif" /\ ex_result.entries = << >>)
    /\ (ex_pc = "done" /\ ex_result.kind = "None")
       => (image.getexif # "returns" \/ DOMAIN image.exif = {})

\* C8 witness: two entries, one with a tag no table names and one with a
\* float value, and the wrapper came back empty.
C8_Witness ==
    /\ ex_pc = "done"
    /\ ExifTags = PIL_TAGS
    /\ image.getexif = "returns"
    /\ DOMAIN image.exif = {271, 59999}
    /\ image.exif[271].kind = "float"
    /\ ex_result.kind = "RawExif"
    /\ ex_result.entries = << >>

(***************************************************************************)
(*                       claims on pixels_as_*                             *)
(***************************************************************************)

In01(x) == GeZero(x) /\ LeOne(x)

\* C3: a boolean buffer is mapped to 0/65535 in uint16 by pixels_as_uint, to
\* 0/255 by pixels_as_ubyte and to 0.0/1.0 by pixels_as_float; no product
\* overflows or wraps.
C3_BooleanScaling ==
    (orig.dtype = "bool" /\ Len(calls) = 1) =>
        /\ px_error = "none"
        /\ DOMAIN pixels.data = DOMAIN orig.data
        /\ calls[1] = "uint" =>
             /\ pixels.dtype = "uint16"
             /\ \A i \in DOMAIN orig.data :
                  pixels.data[i] = FromInt(65535 * orig.data[i].m)
        /\ calls[1] = "ubyte" =>
             /\ pixels.dtype = "uint8"
             /\ \A i \in DOMAIN orig.data :
                  pixels.data[i] = FromInt(255 * orig.data[i].m)
        /\ calls[1] = "float" =>
             /\ pixels.dtype = "float32"
             /\ \A i \in DOMAIN orig.data :
                  pixels.data[i] = (IF orig.data[i].m = 1 THEN One ELSE Zero)

\* C6 (as stated): pixels_as_float of a buffer of any supported element
\* type has every element in [0.0, 1.0].
C6_FloatResultInUnitInterval ==
    (calls = << "float" >> /\ orig.dtype \in SupportedTypes) =>
        /\ px_error = "none"
        /\ \A i \in DOMAIN pixels.data : In01(pixels.data[i])

\* C6 (amended): pixels_as_float of a uint8, uint16 or boolean buffer has
\* every element in [0.0, 1.0]; a float32 or float64 buffer is returned as
\* it is, so its elements are in [0.0, 1.0] only if they were.
C6_IntegerSourcesInUnitIntervalFloatsUnchanged ==
    (calls = << "float" >> /\ orig.dtype \in SupportedTypes) =>
        /\ px_error = "none"
        /\ orig.dtype \in {"uint8", "uint16", "bool"} =>
             /\ pixels.dtype = "float32"
             /\ \A i \in DOMAIN pixels.data : In01(pixels.data[i])
        /\ orig.dtype \in FloatTypes => pixels = orig

\* C6 witness: the uint16 value 32768 became a float strictly between 0 and 1.
C6_Witness ==
    /\ calls = << "float" >>
    /\ orig = [dtype |-> "uint16", data |-> << FromInt(32768) >>]
    /\ pixels.dtype = "float32"
    /\ In01(pixels.data[1])
    /\ pixels.data[1] \notin {Zero, One}

\* C7: each rescale function returns a buffer for float32, float64, uint8,
\* uint16 and boolean input, and raises NotImplementedError for any other
\* element type.
C7_TotalOnSupportedTypes ==
    Len(calls) = 1 =>
        /\ orig.dtype \in SupportedTypes =>
             (px_pc = "ready" /\ px_error = "none")
        /\ orig.dtype \notin SupportedTypes =>
             (px_pc = "raised" /\ px_error = "NotImplementedError"
              /\ pixels = orig)

\* C9: uint8 -> pixels_as_float -> pixels_as_ubyte gives back each of the
\* 256 byte values.
C9_ByteRoundTrip ==
    (orig.dtype = "uint8" /\ calls = << "float", "ubyte" >>) =>
        (px_error = "none" /\ pixels = orig)

\* C9 witness: the byte 254 went through float32 (254/255 is not a short
\* binary fraction) and came back.
C9_Witness ==
    /\ orig = [dtype |-> "uint8", data |-> << FromInt(254) >>]
    /\ calls = << "float", "ubyte" >>
    /\ pixels = orig

====
